---- MODULE Spec2Model ----
(***************************************************************************)
(* A model of src/database_utils.py: the IDEB/ENEM preparation pipeline    *)
(* (GetIdeb, PrepareIdeb, GetMerged) and the two analysis routines         *)
(* (NormalityTest, NonParamTest).                                          *)
(*                                                                         *)
(* A table (DataFrame) is [cols |-> sequence of column names,              *)
(* rows |-> sequence of rows]; a row maps each column name to a cell.      *)
(* A cell is null (NaN/None), a float, or a Python string (a sequence of   *)
(* one-character strings, so that str[:-2], str() and float() are          *)
(* computed on the characters).  A float cell stores TWICE its value in    *)
(* x2, so that the mean of the two middle values of a median is exact.     *)
(* Column names with non-ASCII letters or line breaks are spelt in ASCII.  *)
(***************************************************************************)
EXTENDS Integers, Sequences, FiniteSets, TLC

VARIABLES
    pc,         \* the statement the running function is at
    exc,        \* the exception caught by the except clause ("none": none)
    printed,    \* what print() has written, in order
    raised,     \* the exception that left the function ("none": none)
    result,     \* the value returned to the caller (NoTable: nothing yet)
    df,         \* PrepareIdeb / NonParamTest: the caller's table
    ideb,       \* PrepareIdeb: the local ideb; GetMerged: the caller's ideb
    enem,       \* GetMerged: the caller's enem
    dfmerge,    \* GetMerged: the local dfmerge
    joined,     \* history: dfmerge as line 75 produced it
    enem0,      \* history: enem as the caller passed it
    ideb0,      \* history: ideb as the caller passed it
    stage,      \* stage skeleton: which of the three stages runs
    line,       \* stage skeleton: index of the statement of the try body
    executed,   \* stage skeleton: the source lines that completed
    bound,      \* stage skeleton: whether the returned local is assigned
    cols_in,    \* NormalityTest: the columns of df, <<name, dtype>> each
    alpha,      \* NormalityTest / NonParamTest: significance level (1/100)
    x,          \* NormalityTest: loop index (0-based, as range())
    output_1,   \* NormalityTest: Shapiro-Wilk rows
    output_2,   \* NormalityTest: D'Agostino-Pearson rows
    pvals,      \* history: the p-values the two tests returned, per column
    k,          \* NonParamTest: df_[col].nunique()
    i,          \* NonParamTest: loop index (0-based)
    samples,    \* NonParamTest: the list of samples
    cats,       \* history: the category each sample was selected with
    p,          \* NonParamTest: <<the p-value>> (<<>>: p is not assigned)
    test        \* NonParamTest: which test ran, with how many samples

commonVars == <<pc, exc, printed, raised, result>>
tableVars  == <<df, ideb, enem, dfmerge, joined, enem0, ideb0>>
stageVars  == <<stage, line, executed, bound>>
normVars   == <<cols_in, x, output_1, output_2, pvals>>
npVars     == <<k, i, samples, cats, p, test>>
vars == <<commonVars, tableVars, stageVars, normVars, npVars, alpha>>

-----------------------------------------------------------------------------
(* Cells, strings and floats *)

Null == [t |-> "null", x2 |-> 0, s |-> <<>>]
NumX2(h) == [t |-> "num", x2 |-> h, s |-> <<>>]
Num(v) == NumX2(2 * v)
Str(chars) == [t |-> "str", x2 |-> 0, s |-> chars]

notna(c) == c.t # "null"
isna(c) == c.t = "null"

S_nan == <<"n", "a", "n">>
S_dash == <<"-">>

\* The characters the model's strings use, in code-point order.
Chars == <<"-", ".", "0", "1", "2", "3", "4", "5", "6", "7", "8", "9",
           "A", "B", "C", "D", "J", "P", "R", "S", "a", "n">>
DigitChars == <<"0", "1", "2", "3", "4", "5", "6", "7", "8", "9">>
Ord(c) == CHOOSE n \in 1..Len(Chars) : Chars[n] = c
IsDigit(c) == \E n \in 1..10 : DigitChars[n] = c
DigitVal(c) == (CHOOSE n \in 1..10 : DigitChars[n] = c) - 1

RECURSIVE Digits(_)
\* str() of a non-negative integer
Digits(n) == IF n < 10 THEN <<DigitChars[n + 1]>>
             ELSE Digits(n \div 10) \o <<DigitChars[(n % 10) + 1]>>

\* str() of a float64 holding x2/2: "11.0", "2.5"
FloatStr(h) == Digits(h \div 2) \o <<".", IF h % 2 = 0 THEN "0" ELSE "5">>

RECURSIVE DigitsVal(_)
DigitsVal(ds) == IF Len(ds) = 0 THEN 0
                 ELSE 10 * DigitsVal(SubSeq(ds, 1, Len(ds) - 1)) + DigitVal(ds[Len(ds)])

AllDigits(ds) == Len(ds) > 0 /\ \A n \in 1..Len(ds) : IsDigit(ds[n])

NotAFloat == [t |-> "err", x2 |-> 0, s |-> <<>>]

\* float(s) on the strings str() produces and on plain digit strings:
\* "nan" is NaN, "12" and "12.0" are 12.0, "2.5" is 2.5; a string that is no
\* number raises ValueError (the cell NotAFloat).
ParseFloat(chars) ==
    IF chars = S_nan THEN Null
    ELSE IF AllDigits(chars) THEN Num(DigitsVal(chars))
    ELSE IF /\ Len(chars) >= 3
            /\ chars[Len(chars) - 1] = "."
            /\ chars[Len(chars)] \in {"0", "5"}
            /\ AllDigits(SubSeq(chars, 1, Len(chars) - 2))
         THEN NumX2(2 * DigitsVal(SubSeq(chars, 1, Len(chars) - 2))
                    + (IF chars[Len(chars)] = "5" THEN 1 ELSE 0))
    ELSE NotAFloat

\* str(v) of a cell's value, as astype(str) and applymap(str) compute it
PyStr(c) == IF c.t = "null" THEN S_nan
            ELSE IF c.t = "num" THEN FloatStr(c.x2)
            ELSE c.s

astype_str(c) == Str(PyStr(c))

\* s[:-2] of a Python string
StripLast2(chars) == IF Len(chars) <= 2 THEN <<>> ELSE SubSeq(chars, 1, Len(chars) - 2)

RECURSIVE StrLess(_, _)
\* a < b on Python strings (code-point lexicographic)
StrLess(a, b) ==
    IF Len(b) = 0 THEN FALSE
    ELSE IF Len(a) = 0 THEN TRUE
    ELSE IF a[1] = b[1] THEN StrLess(Tail(a), Tail(b))
    ELSE Ord(a[1]) < Ord(b[1])

-----------------------------------------------------------------------------
(* Tables *)

NoTable == [cols |-> <<>>, rows |-> <<>>]

Range(f) == {f[n] : n \in DOMAIN f}
SeqsUpTo(S, n) == UNION {[1..m -> S] : m \in 0..n}

RECURSIVE SelectSeq2(_, _)
\* the subsequence of the rows that satisfy keep (boolean indexing)
SelectSeq2(rows, keep) ==
    IF Len(rows) = 0 THEN <<>>
    ELSE (IF keep[1] THEN <<rows[1]>> ELSE <<>>)
         \o SelectSeq2(Tail(rows), Tail(keep))

RECURSIVE SeqMinus(_, _)
\* the sequence of names without those in gone
SeqMinus(names, gone) ==
    IF Len(names) = 0 THEN <<>>
    ELSE (IF names[1] \in gone THEN <<>> ELSE <<names[1]>>) \o SeqMinus(Tail(names), gone)

\* df[[c1, ..., cn]]: a new table with the listed columns
SelectCols(t, names) ==
    [cols |-> names,
     rows |-> [n \in 1..Len(t.rows) |-> [c \in Range(names) |-> t.rows[n][c]]]]

\* df.drop(labels=..., axis=1)
DropCols(t, gone) ==
    [cols |-> SeqMinus(t.cols, gone),
     rows |-> [n \in 1..Len(t.rows) |->
                 [c \in (DOMAIN t.rows[n]) \ gone |-> t.rows[n][c]]]]

\* the cells of column c, top to bottom
Col(t, c) == [n \in 1..Len(t.rows) |-> t.rows[n][c]]

\* the table with the cells of column c replaced by cells, row by row
SetCol(t, c, cells) ==
    [cols |-> t.cols,
     rows |-> [n \in 1..Len(t.rows) |->
                 [d \in DOMAIN t.rows[n] |->
                     IF d = c THEN cells[n] ELSE t.rows[n][d]]]]

\* ideb[[c]] = ideb[[c]].replace({'-': np.nan}), on one cell
replace_dash(c) == IF c = Str(S_dash) THEN Null ELSE c

\* df.rename(columns=map): map is a function from old names to new names
RenameCols(t, map) ==
    LET new(c) == IF c \in DOMAIN map THEN map[c] ELSE c
        old(t_cols, d) == CHOOSE c \in Range(t_cols) : new(c) = d
    IN [cols |-> [n \in 1..Len(t.cols) |-> new(t.cols[n])],
        rows |-> [n \in 1..Len(t.rows) |->
                    [d \in {new(c) : c \in Range(t.cols)} |-> t.rows[n][old(t.cols, d)]]]]

-----------------------------------------------------------------------------
(* The variables a function does not use keep these values. *)

CommonInit == /\ exc = "none" /\ printed = <<>> /\ raised = "none" /\ result = NoTable
TablesIdle == /\ df = NoTable /\ ideb = NoTable /\ enem = NoTable /\ dfmerge = NoTable
              /\ joined = NoTable /\ enem0 = NoTable /\ ideb0 = NoTable
StageIdle == /\ stage = "none" /\ line = 0 /\ executed = {} /\ bound = FALSE
NormIdle == /\ cols_in = <<>> /\ x = 0 /\ output_1 = <<>> /\ output_2 = <<>> /\ pvals = <<>>
NpIdle == /\ k = 0 /\ i = 0 /\ samples = <<>> /\ cats = <<>> /\ p = <<>> /\ test = "none"

-----------------------------------------------------------------------------
(* PrepareIdeb(df), lines 31-57 *)

MaxDfRows == 2

SrcCols == <<"Codigo da Escola", "Unnamed: 12", "Unnamed: 15", "IDEB 2017 (N x P)">>
IdebCols == <<"CO_ESCOLA", "IN_RENDIMENTO", "NT_PADRONIZADA", "IDEB">>
IdebRename == [c \in Range(SrcCols) |->
                 IF c = "Codigo da Escola" THEN "CO_ESCOLA"
                 ELSE IF c = "Unnamed: 12" THEN "IN_RENDIMENTO"
                 ELSE IF c = "Unnamed: 15" THEN "NT_PADRONIZADA"
                 ELSE "IDEB"]

PrepareMsgOk == "Pre-processamento da base do IDEB concluido"
PrepareMsgErr == "Erro na preparacao dos dados do IDEB. Foi verificada a excecao: "

\* The sheet read_excel returns: the four columns PrepareIdeb uses and one more.
SheetCols == <<"Codigo da Escola", "Nome da Escola", "Unnamed: 12", "Unnamed: 15",
               "IDEB 2017 (N x P)">>
SheetRow(code, rend, nota, idx) ==
    [c \in Range(SheetCols) |->
        IF c = "Codigo da Escola" THEN code
        ELSE IF c = "Nome da Escola" THEN Str(<<"A">>)
        ELSE IF c = "Unnamed: 12" THEN rend
        ELSE IF c = "Unnamed: 15" THEN nota
        ELSE idx]
SheetRows ==
    {SheetRow(code, rend, nota, idx) :
        code \in {Null, Num(11), Str(<<"7">>)},
        rend \in {Null, Str(S_dash), Num(1)},
        nota \in {Str(S_dash), Num(4)},
        idx \in {Str(S_dash), Num(5)}}
\* A sheet whose layout drifted: 'Unnamed: 15' is absent.
DriftedCols == <<"Codigo da Escola", "Nome da Escola", "Unnamed: 12", "IDEB 2017 (N x P)">>
PrepareInputs ==
    {[cols |-> SheetCols, rows |-> rs] : rs \in SeqsUpTo(SheetRows, MaxDfRows)}
    \cup {[cols |-> DriftedCols, rows |-> <<>>]}

InitPrepareIdeb ==
    /\ pc = "pi_40" /\ CommonInit
    /\ df \in PrepareInputs
    /\ ideb = NoTable /\ enem = NoTable /\ dfmerge = NoTable
    /\ joined = NoTable /\ enem0 = NoTable /\ ideb0 = NoTable
    /\ StageIdle /\ NormIdle /\ NpIdle /\ alpha = 5

prepareFrame == <<df, enem, dfmerge, joined, enem0, ideb0, stageVars, normVars, npVars, alpha>>

\* line 40: ideb = df[[...]]; a missing column raises KeyError
PI_Select ==
    /\ pc = "pi_40"
    /\ IF Range(SrcCols) \subseteq Range(df.cols)
       THEN /\ ideb' = SelectCols(df, SrcCols)
            /\ pc' = "pi_42"
            /\ exc' = exc
       ELSE /\ exc' = "KeyError"
            /\ pc' = "pi_55"
            /\ ideb' = ideb
    /\ UNCHANGED <<printed, raised, result, prepareFrame>>

\* lines 42-45: ideb.rename(columns={...}, inplace=True)
PI_Rename ==
    /\ pc = "pi_42"
    /\ ideb' = RenameCols(ideb, IdebRename)
    /\ pc' = "pi_47"
    /\ UNCHANGED <<exc, printed, raised, result, prepareFrame>>

\* a mutant of line 47: the rows without a school code are kept
KeepAllRows(t) == t

\* line 47: ideb[ideb['CO_ESCOLA'].notna()]
DropNullKey(t) ==
    [cols |-> t.cols,
     rows |-> SelectSeq2(t.rows, [n \in 1..Len(t.rows) |-> notna(t.rows[n]["CO_ESCOLA"])])]

PI_DropNullKey ==
    /\ pc = "pi_47"
    /\ ideb' = DropNullKey(ideb)
    /\ pc' = "pi_48"
    /\ UNCHANGED <<exc, printed, raised, result, prepareFrame>>

\* line 48
PI_ReplaceIdeb ==
    /\ pc = "pi_48"
    /\ ideb' = SetCol(ideb, "IDEB",
                   [n \in 1..Len(ideb.rows) |-> replace_dash(ideb.rows[n]["IDEB"])])
    /\ pc' = "pi_49"
    /\ UNCHANGED <<exc, printed, raised, result, prepareFrame>>

\* line 49
PI_ReplaceRendimento ==
    /\ pc = "pi_49"
    /\ ideb' = SetCol(ideb, "IN_RENDIMENTO",
                   [n \in 1..Len(ideb.rows) |-> replace_dash(ideb.rows[n]["IN_RENDIMENTO"])])
    /\ pc' = "pi_50"
    /\ UNCHANGED <<exc, printed, raised, result, prepareFrame>>

\* line 50
PI_ReplaceNota ==
    /\ pc = "pi_50"
    /\ ideb' = SetCol(ideb, "NT_PADRONIZADA",
                   [n \in 1..Len(ideb.rows) |-> replace_dash(ideb.rows[n]["NT_PADRONIZADA"])])
    /\ pc' = "pi_51"
    /\ UNCHANGED <<exc, printed, raised, result, prepareFrame>>

\* line 51: astype(str).str[:-2].astype(object), on one cell
StripKey(c) == Str(StripLast2(PyStr(c)))

PI_StripKey ==
    /\ pc = "pi_51"
    /\ ideb' = SetCol(ideb, "CO_ESCOLA",
                   [n \in 1..Len(ideb.rows) |-> StripKey(ideb.rows[n]["CO_ESCOLA"])])
    /\ pc' = "pi_53"
    /\ UNCHANGED <<exc, printed, raised, result, prepareFrame>>

\* line 53
PI_Print ==
    /\ pc = "pi_53"
    /\ printed' = Append(printed, <<PrepareMsgOk, "">>)
    /\ pc' = "pi_57"
    /\ UNCHANGED <<exc, ideb, raised, result, prepareFrame>>

\* line 55: raise print(msg + str(e)); print returns None, and raising None
\* is a TypeError
PI_Except ==
    /\ pc = "pi_55"
    /\ printed' = Append(printed, <<PrepareMsgErr, exc>>)
    /\ raised' = "TypeError"
    /\ pc' = "pi_raised"
    /\ UNCHANGED <<exc, ideb, result, prepareFrame>>

\* line 57
PI_Return ==
    /\ pc = "pi_57"
    /\ result' = ideb
    /\ pc' = "pi_returned"
    /\ UNCHANGED <<exc, ideb, printed, raised, prepareFrame>>

NextPrepareIdeb ==
    \/ PI_Select \/ PI_Rename \/ PI_DropNullKey \/ PI_ReplaceIdeb
    \/ PI_ReplaceRendimento \/ PI_ReplaceNota \/ PI_StripKey \/ PI_Print
    \/ PI_Except \/ PI_Return

SpecPrepareIdeb == InitPrepareIdeb /\ [][NextPrepareIdeb]_vars

\* the rows of df that carry a school code, in order
KeptSheetRows ==
    SelectSeq2(df.rows, [n \in 1..Len(df.rows) |-> notna(df.rows[n]["Codigo da Escola"])])

IsPrefix(a, b) == Len(a) <= Len(b) /\ SubSeq(b, 1, Len(a)) = a
SameUpToDash(out, src) == out = src \/ (src = Str(S_dash) /\ out = Null)

\* C3: the table PrepareIdeb returns has exactly the four columns CO_ESCOLA,
\* IN_RENDIMENTO, NT_PADRONIZADA, IDEB, holds exactly the input rows whose
\* school code was non-null (in order, their cells carried over), and has
\* no null CO_ESCOLA.
C3_PrepareIdebOutput ==
    pc = "pi_returned" =>
        /\ result.cols = IdebCols
        /\ Len(result.rows) = Len(KeptSheetRows)
        /\ \A n \in 1..Len(result.rows) :
              LET out == result.rows[n]
                  src == KeptSheetRows[n]
              IN /\ DOMAIN out = Range(IdebCols)
                 /\ notna(out["CO_ESCOLA"])
                 /\ out["CO_ESCOLA"].t = "str"
                 /\ IsPrefix(out["CO_ESCOLA"].s, PyStr(src["Codigo da Escola"]))
                 /\ SameUpToDash(out["IN_RENDIMENTO"], src["Unnamed: 12"])
                 /\ SameUpToDash(out["NT_PADRONIZADA"], src["Unnamed: 15"])
                 /\ SameUpToDash(out["IDEB"], src["IDEB 2017 (N x P)"])

\* a sheet with a coded and an uncoded row went through PrepareIdeb
C3_Witness ==
    /\ pc = "pi_returned"
    /\ Len(df.rows) = 2
    /\ Len(result.rows) = 1
    /\ result.rows[1]["CO_ESCOLA"] = Str(<<"1", "1">>)

-----------------------------------------------------------------------------
(* GetMerged(enem, ideb), lines 59-100 *)

MaxEnemRows == 3
MaxJoinRows == 2
MaxIdebRows == 2

EnemCols == <<"CO_ESCOLA", "NU_IDADE", "TP_ESTADO_CIVIL", "TP_ENSINO",
              "SG_UF_RESIDENCIA", "NU_NOTA_TOT", "Q005">>
FloatCols == <<"NU_IDADE", "NU_NOTA_TOT", "IN_RENDIMENTO", "Q005">>

MergedMsgOk == "Gerador de massa de dados concluido com sucesso"
MergedMsgErr == "Erro no gerador de massa de dados. Foi verificada a excecao: "

EnemRow(co, idade, ec, ens, uf, q5) ==
    [c \in Range(EnemCols) |->
        IF c = "CO_ESCOLA" THEN co
        ELSE IF c = "NU_IDADE" THEN idade
        ELSE IF c = "TP_ESTADO_CIVIL" THEN ec
        ELSE IF c = "TP_ENSINO" THEN ens
        ELSE IF c = "SG_UF_RESIDENCIA" THEN uf
        ELSE IF c = "NU_NOTA_TOT" THEN Num(500)
        ELSE q5]
IdebRow(co, rend) ==
    [c \in Range(IdebCols) |->
        IF c = "CO_ESCOLA" THEN co
        ELSE IF c = "IN_RENDIMENTO" THEN rend
        ELSE IF c = "NT_PADRONIZADA" THEN Num(4)
        ELSE Num(5)]

K11 == Str(<<"1", "1">>)
K12 == Str(<<"1", "2">>)
K13 == Str(<<"1", "3">>)
UF_SP == Str(<<"S", "P">>)
UF_RJ == Str(<<"R", "J">>)

EnemTable(rows) == [cols |-> EnemCols, rows |-> rows]
IdebTable(rows) == [cols |-> IdebCols, rows |-> rows]

\* Inputs that vary the join keys of both tables (null keys included).
JoinInputs ==
    {<<EnemTable(es), IdebTable(is)>> :
        es \in SeqsUpTo({EnemRow(co, Num(17), Num(1), Num(1), UF_SP, Num(3)) :
                            co \in {Null, K11, K12}}, MaxJoinRows),
        is \in SeqsUpTo({IdebRow(co, Num(1)) : co \in {Null, K11, K12}}, MaxIdebRows)}
\* Inputs that vary the cells the global imputations read.
GlobalImputeInputs ==
    {<<EnemTable(es), IdebTable(<<IdebRow(K11, Num(1))>>)>> :
        es \in SeqsUpTo({EnemRow(K11, idade, ec, Num(1), UF_SP, Num(3)) :
                            idade \in {Null, Num(17)}, ec \in {Null, Num(1), Num(2)}},
                        MaxEnemRows)
               \cup SeqsUpTo({EnemRow(K11, Num(17), Num(1), ens, UF_SP, Num(3)) :
                                ens \in {Null, Num(1)}}, MaxEnemRows)}
\* Inputs that vary the state of residence and whether the school is in
\* ideb: school 11 (rate 1) has students in SP and without a state, school 12
\* (rate 3) in RJ and in SP, and school 13, which ideb lacks, in SP and
\* without a state.
GroupImputeInputs ==
    {<<EnemTable(es), IdebTable(<<IdebRow(K11, Num(1)), IdebRow(K12, Num(3))>>)>> :
        es \in SeqsUpTo({EnemRow(ku[1], Num(17), Num(1), Num(1), ku[2], Num(3)) :
                            ku \in {<<K11, UF_SP>>, <<K12, UF_RJ>>, <<K12, UF_SP>>,
                                    <<K13, UF_SP>>, <<K11, Null>>, <<K13, Null>>}},
                        MaxEnemRows)}
\* An input whose Q005 holds a letter, which float() rejects.
LetterInputs ==
    {<<EnemTable(<<EnemRow(K11, Num(17), Num(1), Num(1), UF_SP, Str(<<"B">>))>>),
       IdebTable(<<IdebRow(K11, Num(1))>>)>>}
MergedInputs == JoinInputs \cup GlobalImputeInputs \cup GroupImputeInputs \cup LetterInputs

InitGetMerged ==
    /\ pc = "gm_70" /\ CommonInit
    /\ \E in \in MergedInputs : /\ enem = in[1] /\ ideb = in[2]
                                /\ enem0 = in[1] /\ ideb0 = in[2]
    /\ df = NoTable /\ dfmerge = NoTable /\ joined = NoTable
    /\ StageIdle /\ NormIdle /\ NpIdle /\ alpha = 5

mergedFrame == <<df, enem0, ideb0, stageVars, normVars, npVars, alpha>>

\* sort_values(by=['CO_ESCOLA']) order: ascending, NaN last
KeyLE(a, b) ==
    IF isna(b) THEN TRUE
    ELSE IF isna(a) THEN FALSE
    ELSE ~StrLess(b.s, a.s)

\* The row orders sort_values(inplace=True) may leave: the default kind is
\* quicksort, which is not stable, so rows with equal keys come in any order;
\* rows with a NaN key are appended in their original order.
SortOrders(rows) ==
    IF Len(rows) = 0 THEN {<<>>}
    ELSE {q \in Permutations(1..Len(rows)) :
            \A a, b \in 1..Len(rows) :
                a < b => /\ KeyLE(rows[q[a]]["CO_ESCOLA"], rows[q[b]]["CO_ESCOLA"])
                         /\ (isna(rows[q[a]]["CO_ESCOLA"]) => q[a] < q[b])}

Reorder(t, q) == [cols |-> t.cols, rows |-> [n \in 1..Len(t.rows) |-> t.rows[q[n]]]]

\* the right-hand cells of a left row that matched nothing
NullRight(rcols) == [c \in Range(rcols) |-> Null]

Combine(l, r, rcols) ==
    [c \in (DOMAIN l) \cup (Range(rcols) \ {"CO_ESCOLA"}) |->
        IF c \in DOMAIN l THEN l[c] ELSE r[c]]

\* the rows of right whose key equals the key of l (NaN keys match each other)
Matches(l, rrows) ==
    SelectSeq2(rrows, [n \in 1..Len(rrows) |-> rrows[n]["CO_ESCOLA"] = l["CO_ESCOLA"]])

\* a mutant of the merge: how='inner'
InnerRowsFor(l, rrows, rcols) ==
    LET m == Matches(l, rrows)
    IN [n \in 1..Len(m) |-> Combine(l, m[n], rcols)]

\* how='left': the rows one left row contributes
LeftRowsFor(l, rrows, rcols) ==
    LET m == Matches(l, rrows)
    IN IF Len(m) = 0 THEN <<Combine(l, NullRight(rcols), rcols)>>
       ELSE [n \in 1..Len(m) |-> Combine(l, m[n], rcols)]

RECURSIVE MergeRows(_, _, _)
MergeRows(lrows, rrows, rcols) ==
    IF Len(lrows) = 0 THEN <<>>
    ELSE LeftRowsFor(lrows[1], rrows, rcols) \o MergeRows(Tail(lrows), rrows, rcols)

\* enem.merge(ideb, left_on='CO_ESCOLA', right_on='CO_ESCOLA', how='left')
merge(left, right) ==
    [cols |-> left.cols \o SeqMinus(right.cols, {"CO_ESCOLA"}),
     rows |-> MergeRows(left.rows, right.rows, right.cols)]

RECURSIVE InsertSorted(_, _)
InsertSorted(v, sorted) ==
    IF Len(sorted) = 0 THEN <<v>>
    ELSE IF v <= sorted[1] THEN <<v>> \o sorted
    ELSE <<sorted[1]>> \o InsertSorted(v, Tail(sorted))

RECURSIVE SortedX2(_)
\* the x2 of the non-null cells, ascending
SortedX2(cells) ==
    IF Len(cells) = 0 THEN <<>>
    ELSE IF isna(cells[1]) THEN SortedX2(Tail(cells))
    ELSE InsertSorted(cells[1].x2, SortedX2(Tail(cells)))

\* Series.median(): NaN are skipped; no value at all gives NaN, no error
median(cells) ==
    LET v == SortedX2(cells)
        n == Len(v)
    IN IF n = 0 THEN Null
       ELSE IF n % 2 = 1 THEN NumX2(v[(n + 1) \div 2])
       ELSE NumX2((v[n \div 2] + v[(n \div 2) + 1]) \div 2)

CountOf(cells, c) == Cardinality({n \in 1..Len(cells) : cells[n] = c})

\* Series.mode(): the most frequent non-null values (ascending), as a set
mode(cells) ==
    LET vals == {c \in Range(cells) : notna(c)}
    IN {c \in vals : \A d \in vals : CountOf(cells, d) <= CountOf(cells, c)}

\* mode()[0]: the smallest modal value
mode0(cells) == CHOOSE c \in mode(cells) : \A d \in mode(cells) : c.x2 <= d.x2

fillna(c, v) == IF isna(c) THEN v ELSE c

\* the table with column c filled, row by row, from the cells of fill
FillCol(t, c, fill) ==
    [cols |-> t.cols,
     rows |-> [n \in 1..Len(t.rows) |->
                 [d \in DOMAIN t.rows[n] |->
                     IF d = c THEN fillna(t.rows[n][d], fill[n]) ELSE t.rows[n][d]]]]

\* dfmerge.groupby('SG_UF_RESIDENCIA')['IN_RENDIMENTO'].transform('median'):
\* groupby drops the rows whose key is NaN, and transform gives them NaN
GroupMedian(t) ==
    [n \in 1..Len(t.rows) |->
        LET uf == t.rows[n]["SG_UF_RESIDENCIA"]
        IN IF isna(uf) THEN Null
           ELSE median(SelectSeq2(Col(t, "IN_RENDIMENTO"),
                                  [m \in 1..Len(t.rows) |->
                                      t.rows[m]["SG_UF_RESIDENCIA"] = uf]))]

\* lines 92-95: applymap(str), then float() on the four numeric columns
Stringified(t) ==
    [cols |-> t.cols,
     rows |-> [n \in 1..Len(t.rows) |->
                 [d \in DOMAIN t.rows[n] |->
                     IF d \in Range(FloatCols) THEN ParseFloat(PyStr(t.rows[n][d]))
                     ELSE Str(PyStr(t.rows[n][d]))]]]

HasNotAFloat(t) ==
    \E n \in 1..Len(t.rows) : \E d \in DOMAIN t.rows[n] : t.rows[n][d] = NotAFloat

\* line 70: ideb['CO_ESCOLA'] = ideb['CO_ESCOLA'].astype(str), on the caller's table
GM_CastKey ==
    /\ pc = "gm_70"
    /\ ideb' = SetCol(ideb, "CO_ESCOLA",
                   [n \in 1..Len(ideb.rows) |-> astype_str(ideb.rows[n]["CO_ESCOLA"])])
    /\ pc' = "gm_72"
    /\ UNCHANGED <<exc, printed, raised, result, enem, dfmerge, joined, mergedFrame>>

\* line 72: ideb.sort_values(by=['CO_ESCOLA'], inplace=True)
GM_SortIdeb ==
    /\ pc = "gm_72"
    /\ \E q \in SortOrders(ideb.rows) : ideb' = Reorder(ideb, q)
    /\ pc' = "gm_73"
    /\ UNCHANGED <<exc, printed, raised, result, enem, dfmerge, joined, mergedFrame>>

\* line 73: enem.sort_values(by=['CO_ESCOLA'], inplace=True)
GM_SortEnem ==
    /\ pc = "gm_73"
    /\ \E q \in SortOrders(enem.rows) : enem' = Reorder(enem, q)
    /\ pc' = "gm_75"
    /\ UNCHANGED <<exc, printed, raised, result, ideb, dfmerge, joined, mergedFrame>>

\* line 75
GM_Merge ==
    /\ pc = "gm_75"
    /\ dfmerge' = merge(enem, ideb)
    /\ joined' = dfmerge'
    /\ pc' = "gm_76"
    /\ UNCHANGED <<exc, printed, raised, result, enem, ideb, mergedFrame>>

\* lines 76-79: the key and the two sparse columns are dropped
GM_Drop ==
    /\ pc = "gm_76"
    /\ dfmerge' = DropCols(DropCols(dfmerge, {"CO_ESCOLA"}), {"IDEB", "NT_PADRONIZADA"})
    /\ pc' = "gm_82"
    /\ UNCHANGED <<exc, printed, raised, result, enem, ideb, joined, mergedFrame>>

\* lines 82-83: NU_IDADE as float64, NaN filled with the median
GM_FillIdade ==
    /\ pc = "gm_82"
    /\ dfmerge' = FillCol(dfmerge, "NU_IDADE",
                          [n \in 1..Len(dfmerge.rows) |-> median(Col(dfmerge, "NU_IDADE"))])
    /\ pc' = "gm_86"
    /\ UNCHANGED <<exc, printed, raised, result, enem, ideb, joined, mergedFrame>>

\* fillna(column.mode()[0]): indexing an empty mode() raises KeyError
FillMode(c, next) ==
    IF mode(Col(dfmerge, c)) = {}
    THEN /\ exc' = "KeyError"
         /\ pc' = "gm_99"
         /\ dfmerge' = dfmerge
    ELSE /\ dfmerge' = FillCol(dfmerge, c,
                               [n \in 1..Len(dfmerge.rows) |-> mode0(Col(dfmerge, c))])
         /\ pc' = next
         /\ exc' = exc

\* line 86
GM_FillEstadoCivil ==
    /\ pc = "gm_86"
    /\ FillMode("TP_ESTADO_CIVIL", "gm_87")
    /\ UNCHANGED <<printed, raised, result, enem, ideb, joined, mergedFrame>>

\* line 87
GM_FillEnsino ==
    /\ pc = "gm_87"
    /\ FillMode("TP_ENSINO", "gm_90")
    /\ UNCHANGED <<printed, raised, result, enem, ideb, joined, mergedFrame>>

\* line 90
GM_FillRendimento ==
    /\ pc = "gm_90"
    /\ dfmerge' = FillCol(dfmerge, "IN_RENDIMENTO", GroupMedian(dfmerge))
    /\ pc' = "gm_92"
    /\ UNCHANGED <<exc, printed, raised, result, enem, ideb, joined, mergedFrame>>

\* lines 92-95; float() of a string that is no number raises ValueError
GM_Stringify ==
    /\ pc = "gm_92"
    /\ IF HasNotAFloat(Stringified(dfmerge))
       THEN /\ exc' = "ValueError"
            /\ pc' = "gm_99"
            /\ dfmerge' = dfmerge
       ELSE /\ dfmerge' = Stringified(dfmerge)
            /\ pc' = "gm_97"
            /\ exc' = exc
    /\ UNCHANGED <<printed, raised, result, enem, ideb, joined, mergedFrame>>

\* line 97
GM_Print ==
    /\ pc = "gm_97"
    /\ printed' = Append(printed, <<MergedMsgOk, "">>)
    /\ pc' = "gm_100"
    /\ UNCHANGED <<exc, raised, result, enem, ideb, dfmerge, joined, mergedFrame>>

\* line 99: raise print(...) prints, then raising None is a TypeError
GM_Except ==
    /\ pc = "gm_99"
    /\ printed' = Append(printed, <<MergedMsgErr, exc>>)
    /\ raised' = "TypeError"
    /\ pc' = "gm_raised"
    /\ UNCHANGED <<exc, result, enem, ideb, dfmerge, joined, mergedFrame>>

\* line 100
GM_Return ==
    /\ pc = "gm_100"
    /\ result' = dfmerge
    /\ pc' = "gm_returned"
    /\ UNCHANGED <<exc, printed, raised, enem, ideb, dfmerge, joined, mergedFrame>>

NextGetMerged ==
    \/ GM_CastKey \/ GM_SortIdeb \/ GM_SortEnem \/ GM_Merge \/ GM_Drop
    \/ GM_FillIdade \/ GM_FillEstadoCivil \/ GM_FillEnsino \/ GM_FillRendimento
    \/ GM_Stringify \/ GM_Print \/ GM_Except \/ GM_Return

SpecGetMerged == InitGetMerged /\ [][NextGetMerged]_vars

EnemPart(row) == [c \in Range(EnemCols) |-> row[c]]
CountRows(rows, r) == Cardinality({n \in 1..Len(rows) : rows[n] = r})
AfterMerge == pc \in {"gm_76", "gm_82", "gm_86", "gm_87", "gm_90", "gm_92", "gm_97",
                      "gm_99", "gm_100", "gm_raised", "gm_returned"} /\ joined # NoTable

\* C2: the left join keeps every enem row: each row the caller passed is in
\* the join result at least as often as in enem, and a row whose CO_ESCOLA
\* equals no (stringified) ideb key is there exactly as often as in enem,
\* with null IN_RENDIMENTO, NT_PADRONIZADA and IDEB.
C2_LeftJoinKeepsRows ==
    AfterMerge =>
        \A r \in Range(enem0.rows) :
            LET hits == {m \in 1..Len(joined.rows) : EnemPart(joined.rows[m]) = r}
                matched == \E j \in 1..Len(ideb0.rows) :
                              astype_str(ideb0.rows[j]["CO_ESCOLA"]) = r["CO_ESCOLA"]
            IN /\ Cardinality(hits) >= CountRows(enem0.rows, r)
               /\ ~matched =>
                    /\ Cardinality(hits) = CountRows(enem0.rows, r)
                    /\ \A m \in hits : /\ isna(joined.rows[m]["IN_RENDIMENTO"])
                                       /\ isna(joined.rows[m]["NT_PADRONIZADA"])
                                       /\ isna(joined.rows[m]["IDEB"])

\* a join with an unmatched student and a student whose school has two ideb rows
C2_Witness ==
    /\ pc = "gm_76"
    /\ Len(joined.rows) > Len(enem0.rows)
    /\ \E m \in 1..Len(joined.rows) : isna(joined.rows[m]["IDEB"])
    /\ \E m \in 1..Len(joined.rows) : notna(joined.rows[m]["IDEB"])

UFValues(t) == Range(Col(t, "SG_UF_RESIDENCIA"))
RendimentoOf(t, uf) ==
    SelectSeq2(Col(t, "IN_RENDIMENTO"),
               [m \in 1..Len(t.rows) |-> t.rows[m]["SG_UF_RESIDENCIA"] = uf])
SomeNotNull(cells) == \E n \in 1..Len(cells) : notna(cells[n])

\* every imputation group of the joined table has a non-null value; the rows
\* without a state of residence count as a group of their own
GroupsNonEmpty(t) ==
    /\ SomeNotNull(Col(t, "NU_IDADE"))
    /\ SomeNotNull(Col(t, "TP_ESTADO_CIVIL"))
    /\ SomeNotNull(Col(t, "TP_ENSINO"))
    /\ \A uf \in UFValues(t) : SomeNotNull(RendimentoOf(t, uf))

IsNullOrNan(c) == isna(c) \/ c = Str(S_nan)

\* C1: when every imputation group is non-empty, the table GetMerged returns
\* has no null (nor 'nan') NU_IDADE, TP_ESTADO_CIVIL, TP_ENSINO or
\* IN_RENDIMENTO.
C1_NoNullAfterImputation ==
    (pc = "gm_returned" /\ GroupsNonEmpty(joined)) =>
        \A n \in 1..Len(result.rows) :
            /\ ~IsNullOrNan(result.rows[n]["NU_IDADE"])
            /\ ~IsNullOrNan(result.rows[n]["TP_ESTADO_CIVIL"])
            /\ ~IsNullOrNan(result.rows[n]["TP_ENSINO"])
            /\ ~IsNullOrNan(result.rows[n]["IN_RENDIMENTO"])

\* C4: after line 90 every row whose IN_RENDIMENTO was null after the join
\* holds the median of the non-null IN_RENDIMENTO of the rows that share its
\* SG_UF_RESIDENCIA, whatever that value is (stated for the rows whose group
\* has a non-null value, where that median exists).
C4_FilledWithStateMedian ==
    pc = "gm_92" =>
        \A n \in 1..Len(joined.rows) :
            LET group == RendimentoOf(joined, joined.rows[n]["SG_UF_RESIDENCIA"])
            IN (isna(joined.rows[n]["IN_RENDIMENTO"]) /\ SomeNotNull(group)) =>
                  dfmerge.rows[n]["IN_RENDIMENTO"] = median(group)

\* Supporting property: a row with a known state whose group has a value is
\* filled with the median of its state (2 for a group holding 1 and 3).
FilledWithMedianOfKnownState ==
    pc = "gm_92" =>
        \A n \in 1..Len(joined.rows) :
            LET uf == joined.rows[n]["SG_UF_RESIDENCIA"]
                group == RendimentoOf(joined, uf)
            IN (isna(joined.rows[n]["IN_RENDIMENTO"]) /\ notna(uf) /\ SomeNotNull(group)) =>
                  dfmerge.rows[n]["IN_RENDIMENTO"] = median(group)

EmptyGroup(t) ==
    \/ ~SomeNotNull(Col(t, "NU_IDADE"))
    \/ ~SomeNotNull(Col(t, "TP_ESTADO_CIVIL"))
    \/ ~SomeNotNull(Col(t, "TP_ENSINO"))
    \/ \E uf \in UFValues(t) : notna(uf) /\ ~SomeNotNull(RendimentoOf(t, uf))

\* C7: GetMerged does not return a table when an imputation group has no
\* non-null value (all NU_IDADE null, all TP_ESTADO_CIVIL or all TP_ENSINO
\* null, or a state whose rows all lack IN_RENDIMENTO).
C7_FailsOnEmptyGroup ==
    (AfterMerge /\ EmptyGroup(joined)) => pc # "gm_returned"

\* C10: when GetMerged returns, the caller's enem and ideb hold the rows, the
\* order and the cell values they held at the call.
C10_InputsUntouched ==
    pc = "gm_returned" => (enem = enem0 /\ ideb = ideb0)

-----------------------------------------------------------------------------
(* The try/except skeleton GetIdeb, PrepareIdeb and GetMerged share         *)
(* (lines 16-29, 39-57, 69-100): the statements of the try body run in      *)
(* order, any of them may raise, and the except clause is                   *)
(* raise print(<prefix> + str(e)).                                          *)

Stages == {"GetIdeb", "PrepareIdeb", "GetMerged"}

\* the source lines of the statements of each try body
StageLines(st) ==
    IF st = "GetIdeb" THEN <<17, 19, 20, 22, 24>>
    ELSE IF st = "PrepareIdeb" THEN <<40, 42, 47, 48, 49, 50, 51, 53>>
    ELSE <<70, 72, 73, 75, 76, 79, 82, 83, 86, 87, 90, 92, 93, 94, 97>>

\* the line that first assigns the local the function returns (df, ideb, dfmerge)
BindsAt(st) == IF st = "GetIdeb" THEN 20 ELSE IF st = "PrepareIdeb" THEN 40 ELSE 75

StagePrefix(st) ==
    IF st = "GetIdeb" THEN "Erro no download dos dados do IDEB. Foi verificada a excecao: "
    ELSE IF st = "PrepareIdeb" THEN PrepareMsgErr
    ELSE MergedMsgErr

StageOkMsg(st) ==
    IF st = "GetIdeb" THEN "Download do arquivo IDEB concluido"
    ELSE IF st = "PrepareIdeb" THEN PrepareMsgOk
    ELSE MergedMsgOk

\* the table a stage returns, named by the stage that built it
StageTable(st) == [cols |-> <<st>>, rows |-> <<>>]

\* what `except Exception as e` can catch, by class name
Causes == {"ConnectionError", "KeyError", "ValueError"}

InitStages ==
    /\ pc = "st_try" /\ CommonInit
    /\ stage \in Stages /\ line = 1 /\ executed = {} /\ bound = FALSE
    /\ TablesIdle /\ NormIdle /\ NpIdle /\ alpha = 5

stagesFrame == <<tableVars, normVars, npVars, alpha, stage>>

\* the statement at `line` completes
ST_Step ==
    /\ pc = "st_try"
    /\ LET ln == StageLines(stage)[line]
       IN /\ executed' = executed \cup {ln}
          /\ bound' = (bound \/ ln = BindsAt(stage))
          /\ printed' = IF line = Len(StageLines(stage))
                        THEN Append(printed, <<StageOkMsg(stage), "">>)
                        ELSE printed
    /\ line' = line + 1
    /\ pc' = IF line = Len(StageLines(stage)) THEN "st_return" ELSE "st_try"
    /\ UNCHANGED <<exc, raised, result, stagesFrame>>

\* the statement at `line` raises e, and control enters the except clause
ST_Raise ==
    /\ pc = "st_try"
    /\ \E e \in Causes : exc' = e
    /\ pc' = "st_except"
    /\ UNCHANGED <<printed, raised, result, line, executed, bound, stagesFrame>>

\* a mutant of the except clause: the message is printed and nothing is raised
ST_ExceptSwallow ==
    /\ pc = "st_except"
    /\ printed' = Append(printed, <<StagePrefix(stage), exc>>)
    /\ pc' = "st_return"
    /\ UNCHANGED <<exc, raised, result, line, executed, bound, stagesFrame>>

\* lines 27, 55, 99: raise print(msg + str(e)): the message is printed, print
\* returns None, and `raise None` is a TypeError that leaves the function
ST_Except ==
    /\ pc = "st_except"
    /\ printed' = Append(printed, <<StagePrefix(stage), exc>>)
    /\ raised' = "TypeError"
    /\ pc' = "st_raised"
    /\ UNCHANGED <<exc, result, line, executed, bound, stagesFrame>>

\* lines 29, 57, 100: return of the local (an unassigned local is an
\* UnboundLocalError)
ST_Return ==
    /\ pc = "st_return"
    /\ IF bound
       THEN /\ result' = StageTable(stage)
            /\ pc' = "st_returned"
            /\ raised' = raised
       ELSE /\ raised' = "UnboundLocalError"
            /\ pc' = "st_raised"
            /\ result' = result
    /\ UNCHANGED <<exc, printed, line, executed, bound, stagesFrame>>

NextStages == ST_Step \/ ST_Raise \/ ST_Except \/ ST_Return

SpecStages == InitStages /\ [][NextStages]_vars

\* C6: once a statement of a stage body has raised, the statements after it
\* are not executed, no table is returned, and the stage ends by raising,
\* having printed one message made of the stage's prefix and the cause.
C6_FailureAbortsStage ==
    exc # "none" =>
        /\ pc \in {"st_except", "st_raised"}
        /\ result = NoTable
        /\ executed = {StageLines(stage)[n] : n \in 1..(line - 1)}
        /\ pc = "st_raised" => /\ raised # "none"
                               /\ printed = <<<<StagePrefix(stage), exc>>>>

\* GetMerged failed at line 86, with dfmerge already built
C6_Witness ==
    /\ pc = "st_raised"
    /\ stage = "GetMerged"
    /\ StageLines(stage)[line] = 86
    /\ bound

-----------------------------------------------------------------------------
(* NormalityTest(df, alpha), lines 102-135.  The p-values are those the    *)
(* two scipy tests return, in hundredths; any value may come back.         *)

MaxCols == 2

PVals == {1, 5, 9}
Alphas == {1, 5}
Gaussian == "Amostra tem distribuicao gaussiana (H0 nao foi rejeitada)"
NotGaussian == "Amostra nao possui distribuicao gaussiana (Rejeita-se H0)"
ReportCols == <<"Variavel", "Shapiro Wilk Result", "D Agostinos K2 Result">>

\* a column of df: its name and dtype; pandas allows repeated column names
ColumnsOfDf == {[name |-> nm, dtype |-> dt] :
                  nm \in {"NU_IDADE", "NU_NOTA_TOT"},
                  dt \in {"float64", "int64", "object"}}

RECURSIVE FilterSeq(_, _)
FilterSeq(seq, keep) ==
    IF Len(seq) = 0 THEN <<>>
    ELSE (IF seq[1] \in keep THEN <<seq[1]>> ELSE <<>>) \o FilterSeq(Tail(seq), keep)

\* line 111: df.select_dtypes(include=['float64', 'int64'])
select_dtypes(columns) ==
    FilterSeq(columns, {c \in ColumnsOfDf : c.dtype \in {"float64", "int64"}})

\* lines 118-121, 128-131
Verdict(pv, a) == IF pv > a THEN Gaussian ELSE NotGaussian

RECURSIVE InnerMergeOnName(_, _)
\* line 134: output_1.merge(output_2, on='Variavel', how='inner'): each row
\* of output_1, in order, paired with every row of output_2 of the same name
InnerMergeOnName(left, right) ==
    IF Len(left) = 0 THEN <<>>
    ELSE LET same == SelectSeq2(right, [n \in 1..Len(right) |-> right[n][1] = left[1][1]])
         IN [n \in 1..Len(same) |-> <<left[1][1], left[1][2], same[n][2]>>]
            \o InnerMergeOnName(Tail(left), right)

InitNormalityTest ==
    /\ pc = "nt_116" /\ CommonInit
    /\ cols_in \in SeqsUpTo(ColumnsOfDf, MaxCols)
    /\ alpha \in Alphas
    /\ x = 0 /\ output_1 = <<>> /\ output_2 = <<>>
    /\ pvals = [sw |-> <<>>, k2 |-> <<>>]
    /\ TablesIdle /\ StageIdle /\ NpIdle

normFrame == <<exc, printed, raised, tableVars, stageVars, npVars, alpha, cols_in>>

\* lines 116-122: one pass of the Shapiro-Wilk loop
NT_Shapiro ==
    /\ pc = "nt_116"
    /\ x < Len(select_dtypes(cols_in))
    /\ \E pv \in PVals :
          /\ output_1' = Append(output_1, <<select_dtypes(cols_in)[x + 1].name,
                                            Verdict(pv, alpha)>>)
          /\ pvals' = [pvals EXCEPT !.sw = Append(@, pv)]
    /\ x' = x + 1
    /\ UNCHANGED <<pc, result, output_2, normFrame>>

\* lines 123-125: the loop is over; output_1 becomes a frame and x = 0
NT_Frame1 ==
    /\ pc = "nt_116"
    /\ x >= Len(select_dtypes(cols_in))
    /\ x' = 0
    /\ pc' = "nt_126"
    /\ UNCHANGED <<result, output_1, output_2, pvals, normFrame>>

\* lines 126-132: one pass of the D'Agostino-Pearson loop
NT_Normaltest ==
    /\ pc = "nt_126"
    /\ x < Len(select_dtypes(cols_in))
    /\ \E pv \in PVals :
          /\ output_2' = Append(output_2, <<select_dtypes(cols_in)[x + 1].name,
                                            Verdict(pv, alpha)>>)
          /\ pvals' = [pvals EXCEPT !.k2 = Append(@, pv)]
    /\ x' = x + 1
    /\ UNCHANGED <<pc, result, output_1, normFrame>>

\* lines 133-135: output_2 becomes a frame, the two are merged and returned
NT_MergeReturn ==
    /\ pc = "nt_126"
    /\ x >= Len(select_dtypes(cols_in))
    /\ result' = [cols |-> ReportCols, rows |-> InnerMergeOnName(output_1, output_2)]
    /\ pc' = "nt_returned"
    /\ UNCHANGED <<x, output_1, output_2, pvals, normFrame>>

NextNormalityTest == NT_Shapiro \/ NT_Frame1 \/ NT_Normaltest \/ NT_MergeReturn

SpecNormalityTest == InitNormalityTest /\ [][NextNormalityTest]_vars

\* the report row the column at position n of the numeric columns should get
ExpectedRow(n) ==
    <<select_dtypes(cols_in)[n].name,
      IF pvals.sw[n] > alpha THEN Gaussian ELSE NotGaussian,
      IF pvals.k2[n] > alpha THEN Gaussian ELSE NotGaussian>>

\* C5: NormalityTest returns exactly one row per float64/int64 column, with
\* that column's name and, for each test, GAUSSIAN exactly when the p-value
\* the test gave for that column is strictly greater than alpha.
C5_OneRowPerNumericColumn ==
    pc = "nt_returned" =>
        LET n == Len(select_dtypes(cols_in))
        IN /\ Len(result.rows) = n
           /\ \A m \in 1..n : result.rows[m] = ExpectedRow(m)

-----------------------------------------------------------------------------
(* NonParamTest(df, col, alpha), lines 137-188.  A row of df holds its      *)
(* NU_NOTA_TOT (the row's position, so that rows are told apart) and the    *)
(* cell of the grouping column.                                             *)

MaxNpRows == 3

NpCols == <<"NU_NOTA_TOT", "col">>
NpTable(cells) ==
    [cols |-> NpCols,
     rows |-> [n \in 1..Len(cells) |->
                 [c \in Range(NpCols) |-> IF c = "col" THEN cells[n] ELSE Num(n)]]]

\* Tables of up to MaxNpRows rows over three categories and null, and, for
\* the dispatch on k, tables of n rows with n different categories.
ManyCategories == {4, 5, 6, 7, 8, 9, 10, 17, 27}
NpInputs ==
    {NpTable(cells) : cells \in SeqsUpTo({Null, Num(1), Num(2), Num(3)}, MaxNpRows)}
    \cup {NpTable([n \in 1..m |-> Num(n)]) : m \in ManyCategories}

RECURSIVE unique(_)
\* Series.unique(): the distinct cells in order of appearance, NaN included
unique(cells) ==
    IF Len(cells) = 0 THEN <<>>
    ELSE LET before == unique(SubSeq(cells, 1, Len(cells) - 1))
         IN IF cells[Len(cells)] \in Range(before) THEN before
            ELSE Append(before, cells[Len(cells)])

\* Series.nunique(): the number of distinct cells, NaN not counted
nunique(cells) == Cardinality({c \in Range(cells) : notna(c)})

\* df_[df_[col] == cat].drop(col, axis=1) as an array: the NU_NOTA_TOT of the
\* rows whose cell equals cat; NaN == NaN is False
SampleOf(t, cat) ==
    Col([cols |-> t.cols,
         rows |-> SelectSeq2(t.rows, [n \in 1..Len(t.rows) |->
                                         notna(cat) /\ t.rows[n]["col"] = cat])],
        "NU_NOTA_TOT")

\* a mutant of the dispatch: kruskal for any k >= 3
DispatchAnyK(n) == IF n = 2 THEN "mannwhitneyu" ELSE IF n >= 3 THEN "kruskal" ELSE "none"

\* lines 160-182: the test that the if/elif chain calls for k samples
Dispatch(n) ==
    IF n = 2 THEN "mannwhitneyu"
    ELSE IF n \in {3, 4, 5, 6, 7, 8, 17, 27} THEN "kruskal"
    ELSE "none"

SameMsg == "Mesma distribuicao (H0 nao foi rejeitada)"
DifferentMsg == "Distribuicoes diferentes (Rejeita-se H0)"

InitNonParamTest ==
    /\ pc = "np_149" /\ CommonInit
    /\ df \in NpInputs
    /\ alpha \in Alphas
    /\ k = 0 /\ i = 0 /\ samples = <<>> /\ cats = <<>> /\ p = <<>> /\ test = "none"
    /\ ideb = NoTable /\ enem = NoTable /\ dfmerge = NoTable
    /\ joined = NoTable /\ enem0 = NoTable /\ ideb0 = NoTable
    /\ StageIdle /\ NormIdle

npFrame == <<result, df, ideb, enem, dfmerge, joined, enem0, ideb0, stageVars, normVars, alpha>>

\* lines 146-152: k = df_[col].nunique(); samples = []
NP_Nunique ==
    /\ pc = "np_149"
    /\ k' = nunique(Col(df, "col"))
    /\ pc' = "np_153"
    /\ UNCHANGED <<exc, printed, raised, i, samples, cats, p, test, npFrame>>

\* lines 153-157: one pass of `for i in range(k)`
NP_Sample ==
    /\ pc = "np_153"
    /\ i < k
    /\ LET cat == unique(Col(df, "col"))[i + 1]
       IN /\ samples' = Append(samples, SampleOf(df, cat))
          /\ cats' = Append(cats, cat)
    /\ i' = i + 1
    /\ UNCHANGED <<pc, exc, printed, raised, k, p, test, npFrame>>

\* the loop is over
NP_LoopEnd ==
    /\ pc = "np_153"
    /\ i >= k
    /\ pc' = "np_160"
    /\ UNCHANGED <<exc, printed, raised, k, i, samples, cats, p, test, npFrame>>

\* lines 160-182: the if/elif chain; a chosen test returns a p-value, or
\* raises when it is given an empty sample; no branch for k leaves p unassigned
NP_Dispatch ==
    /\ pc = "np_160"
    /\ test' = Dispatch(k)
    /\ IF Dispatch(k) = "none"
       THEN /\ p' = p /\ pc' = "np_185" /\ raised' = raised
       ELSE \/ \E pv \in PVals : /\ p' = <<pv>> /\ pc' = "np_185" /\ raised' = raised
            \/ /\ \E n \in 1..Len(samples) : samples[n] = <<>>
               /\ raised' = "ValueError" /\ pc' = "np_raised" /\ p' = p
    /\ UNCHANGED <<exc, printed, k, i, samples, cats, npFrame>>

\* lines 185-188: `if p > alpha` reads p; an unassigned local is an
\* UnboundLocalError; otherwise one verdict is printed and None is returned
NP_Interpret ==
    /\ pc = "np_185"
    /\ IF p = <<>>
       THEN /\ raised' = "UnboundLocalError"
            /\ pc' = "np_raised"
            /\ printed' = printed
       ELSE /\ printed' = Append(printed,
                                 <<IF p[1] > alpha THEN SameMsg ELSE DifferentMsg, p[1]>>)
            /\ pc' = "np_returned"
            /\ raised' = raised
    /\ UNCHANGED <<exc, k, i, samples, cats, p, test, npFrame>>

NextNonParamTest == NP_Nunique \/ NP_Sample \/ NP_LoopEnd \/ NP_Dispatch \/ NP_Interpret

SpecNonParamTest == InitNonParamTest /\ [][NextNonParamTest]_vars

NpEnded == pc \in {"np_raised", "np_returned"}
UnsupportedK == k \notin {2, 3, 4, 5, 6, 7, 8, 17, 27}

\* C8 (as claimed): when k is none of 2..8, 17, 27, NonParamTest runs no
\* test, reports no verdict and completes without raising.
C8_UnsupportedKIsSilent ==
    (NpEnded /\ UnsupportedK) =>
        /\ test = "none" /\ printed = <<>>
        /\ pc = "np_returned" /\ raised = "none"

\* C8 (amended): when k is none of 2..8, 17, 27, NonParamTest runs no test
\* and reports no verdict, and it ends by raising UnboundLocalError at the
\* read of p on line 185.
C8_UnsupportedKRaises ==
    (NpEnded /\ UnsupportedK) =>
        /\ test = "none" /\ printed = <<>>
        /\ pc = "np_raised" /\ raised = "UnboundLocalError"

\* nine categories: no branch, and the call ended in the error
C8_Witness == pc = "np_raised" /\ k = 9 /\ Len(samples) = 9

\* the samples are a partition of the rows over the category values in C
PartitionOver(C) ==
    /\ Len(samples) = Cardinality(C)
    /\ \A n \in 1..Len(samples) :
          /\ samples[n] # <<>>
          /\ cats[n] \in C
          /\ Range(samples[n]) =
                {df.rows[m]["NU_NOTA_TOT"] : m \in {r \in 1..Len(df.rows) :
                                                      df.rows[r]["col"] = cats[n]}}
    /\ \A n, m \in 1..Len(samples) : n # m => cats[n] # cats[m]
    /\ \A r \in 1..Len(df.rows) :
          Cardinality({n \in 1..Len(samples) :
                         df.rows[r]["NU_NOTA_TOT"] \in Range(samples[n])}) = 1

\* C9: the samples NonParamTest builds partition the rows by category, null
\* entries or not: as many samples as distinct category values (null taken
\* as no category, or as one), each non-empty and holding the NU_NOTA_TOT of
\* exactly the rows of one category, and every row in exactly one sample.
C9_SamplesPartitionRows ==
    pc = "np_160" =>
        \/ PartitionOver({c \in Range(Col(df, "col")) : notna(c)})
        \/ PartitionOver(Range(Col(df, "col")))

\* Supporting property: on a grouping column without null entries the
\* samples are the partition by category.
NullFreeColumnIsPartitioned ==
    (pc = "np_160" /\ \A n \in 1..Len(df.rows) : notna(df.rows[n]["col"])) =>
        PartitionOver(Range(Col(df, "col")))

-----------------------------------------------------------------------------
(* The module as one system: a call of any of the functions. *)

Init ==
    \/ InitStages
    \/ InitPrepareIdeb
    \/ InitGetMerged
    \/ InitNormalityTest
    \/ InitNonParamTest

Next ==
    \/ NextStages
    \/ NextPrepareIdeb
    \/ NextGetMerged
    \/ NextNormalityTest
    \/ NextNonParamTest

Spec == Init /\ [][Next]_vars

====
